---------------------------- MODULE Spec2Model ----------------------------
(***************************************************************************)
(* Model of the modinfo crate (DonovanMods/modinfo_7dtd): the dual-layout  *)
(* ModInfo.xml reader (Modinfo::from_str, parse), the writer               *)
(* (Modinfo::to_string) and the version tools (VersionTools for Version).  *)
(*                                                                         *)
(* Text is modelled as text: every Rust String / &str is a TLA+ string and *)
(* the conversions (to_lowercase, to_case, Version::to_string, the lenient *)
(* version parser, the XML writer and reader) walk it character by         *)
(* character.  Numbers of a version are u64 values kept as canonical       *)
(* decimal text, so that the full 64-bit range is representable.           *)
(***************************************************************************)
EXTENDS Integers, Sequences, FiniteSets, TLC

VARIABLES
    modinfo,    \* the Modinfo value the caller holds (lib.rs:200-208)
    doc,        \* the document last handed to from_str / parse: its text and its shape
    xml,        \* the text the last to_string returned
    emitted,    \* the events the last to_string handed to the Writer
    call,       \* the last operation: its name, its arguments, the Modinfo before it
    outcome,    \* how the last operation ended: "ok", "panic" or a ModinfoError
    ret,        \* what the last get_value_for returned
    disk,       \* the files Modinfo::write wrote: a set of <<path, text>>
    steps       \* number of operations performed so far

vars == <<modinfo, doc, xml, emitted, call, outcome, ret, disk, steps>>

---------------------------------------------------------------------------
(* Characters and strings.                                                 *)

Ch(s, i) == SubSeq(s, i, i)

CharsOf(s) == {Ch(s, i) : i \in 1..Len(s)}

UpperChars == "ABCDEFGHIJKLMNOPQRSTUVWXYZ"
LowerChars == "abcdefghijklmnopqrstuvwxyz"
DigitChars == "0123456789"

UpperSet == CharsOf(UpperChars)
LowerSet == CharsOf(LowerChars)
DigitSet == CharsOf(DigitChars)
AlphaSet == UpperSet \cup LowerSet

\* char::is_whitespace, restricted to the ASCII whitespace the model uses
WhiteSet == {" ", "\n", "\t", "\r"}

LowerOfChar == [c \in UpperSet |-> Ch(LowerChars, CHOOSE i \in 1..26 : Ch(UpperChars, i) = c)]
UpperOfChar == [c \in LowerSet |-> Ch(UpperChars, CHOOSE i \in 1..26 : Ch(LowerChars, i) = c)]

LowerChar(c) == IF c \in UpperSet THEN LowerOfChar[c] ELSE c
UpperChar(c) == IF c \in LowerSet THEN UpperOfChar[c] ELSE c

\* the characters lo..hi of s, each mapped; the range is halved so that the
\* evaluation stays shallow on long texts
RECURSIVE MapChars(_, _, _, _)
MapChars(s, lo, hi, up) ==
    IF lo > hi THEN ""
    ELSE IF lo = hi THEN (IF up THEN UpperChar(Ch(s, lo)) ELSE LowerChar(Ch(s, lo)))
    ELSE LET mid == (lo + hi) \div 2 IN
         MapChars(s, lo, mid, up) \o MapChars(s, mid + 1, hi, up)

\* str::to_lowercase (ASCII)
ToLowercase(s) == MapChars(s, 1, Len(s), FALSE)

RECURSIVE StripRange(_, _, _)
StripRange(s, lo, hi) ==
    IF lo > hi THEN ""
    ELSE IF lo = hi THEN (IF Ch(s, lo) \in WhiteSet THEN "" ELSE Ch(s, lo))
    ELSE LET mid == (lo + hi) \div 2 IN
         StripRange(s, lo, mid) \o StripRange(s, mid + 1, hi)

\* s.split_whitespace().collect::<String>() (strip_ws of the to_string tests)
strip_ws(s) == StripRange(s, 1, Len(s))

RECURSIVE JoinWith(_, _)
JoinWith(ws, sep) ==
    IF ws = <<>> THEN ""
    ELSE IF Len(ws) = 1 THEN ws[1]
    ELSE ws[1] \o sep \o JoinWith(Tail(ws), sep)

RECURSIVE SelectNonEmpty(_)
SelectNonEmpty(ws) ==
    IF ws = <<>> THEN <<>>
    ELSE IF ws[1] = "" THEN SelectNonEmpty(Tail(ws))
    ELSE <<ws[1]>> \o SelectNonEmpty(Tail(ws))

---------------------------------------------------------------------------
(* convert_case: Casing::to_case(Case::Title) and to_case(Case::Pascal).   *)
(* The input is split into words at the delimiters '_', '-' and ' ' (which *)
(* are dropped), between a lowercase and an uppercase letter, and before   *)
(* the last capital of a run of capitals that a lowercase letter follows   *)
(* (the acronym boundary).  Empty words are dropped.                       *)

DelimSet == {"_", "-", " "}

\* words of s from position i on; cur is the word being collected
RECURSIVE SplitWords(_, _, _)
SplitWords(s, i, cur) ==
    IF i > Len(s) THEN <<cur>>
    ELSE LET c == Ch(s, i) IN
         IF c \in DelimSet THEN <<cur>> \o SplitWords(s, i + 1, "")
         ELSE IF cur # "" /\ c \in UpperSet /\ Ch(cur, Len(cur)) \in LowerSet
              THEN <<cur>> \o SplitWords(s, i + 1, c)
         ELSE IF cur # "" /\ c \in UpperSet /\ Ch(cur, Len(cur)) \in UpperSet
                 /\ i < Len(s) /\ Ch(s, i + 1) \in LowerSet
              THEN <<cur>> \o SplitWords(s, i + 1, c)
         ELSE SplitWords(s, i + 1, cur \o c)

Words(s) == SelectNonEmpty(SplitWords(s, 1, ""))

\* Pattern::Capital on one word
Capital(w) == IF w = "" THEN "" ELSE UpperChar(Head(w)) \o ToLowercase(Tail(w))

CapitalAll(ws) == [i \in 1..Len(ws) |-> Capital(ws[i])]

to_case_Title(s) == JoinWith(CapitalAll(Words(s)), " ")
to_case_Pascal(s) == JoinWith(CapitalAll(Words(s)), "")

---------------------------------------------------------------------------
(* semver::Version.  major, minor and patch are u64 values, kept as their  *)
(* canonical decimal text; pre and build are the identifier texts, "" for  *)
(* Prerelease::EMPTY and BuildMetadata::EMPTY.                             *)

U64Max == "18446744073709551615"

DigitValue == [c \in DigitSet |-> (CHOOSE i \in 1..10 : Ch(DigitChars, i) = c) - 1]

RECURSIVE StripZeros(_)
StripZeros(d) == IF Len(d) > 1 /\ Head(d) = "0" THEN StripZeros(Tail(d)) ELSE d

\* a <= b for two digit strings of the same length
RECURSIVE DigitsLeq(_, _)
DigitsLeq(a, b) ==
    IF a = "" THEN TRUE
    ELSE IF DigitValue[Head(a)] < DigitValue[Head(b)] THEN TRUE
    ELSE IF DigitValue[Head(a)] > DigitValue[Head(b)] THEN FALSE
    ELSE DigitsLeq(Tail(a), Tail(b))

\* the canonical digit string d is the text of a u64
FitsU64(d) == Len(d) < Len(U64Max) \/ (Len(d) = Len(U64Max) /\ DigitsLeq(d, U64Max))

\* d + 1 on canonical decimal text (unbounded)
RECURSIVE Succ(_)
Succ(d) ==
    IF d = "" THEN "1"
    ELSE LET last == Ch(d, Len(d))
             init == SubSeq(d, 1, Len(d) - 1)
         IN IF last = "9" THEN Succ(init) \o "0"
            ELSE init \o Ch(DigitChars, DigitValue[last] + 2)

NewVersion(major, minor, patch) ==
    [major |-> major, minor |-> minor, patch |-> patch, pre |-> "", build |-> ""]

\* impl Display for semver::Version
VersionToString(v) ==
    v.major \o "." \o v.minor \o "." \o v.patch
      \o (IF v.pre = "" THEN "" ELSE "-" \o v.pre)
      \o (IF v.build = "" THEN "" ELSE "+" \o v.build)

---------------------------------------------------------------------------
(* lenient_semver::parse_into::<Version>: the tolerant version parser.     *)
(* Rules (lenient_semver's documentation): leading and trailing whitespace *)
(* is allowed; a leading v or V is allowed; minor and patch are optional   *)
(* and default to 0; after the patch, ".<number>" starts build metadata    *)
(* and ".<letters>" a pre-release; a pre-release that is one of the        *)
(* release identifiers (r, final, release) is build metadata instead;      *)
(* anything else, whitespace inside the text included, is an error.        *)

ErrMissing(part) == "Could not parse the " \o part \o " identifier: No input"
\* The library quotes the erroneous input in backquotes; a TLA+ string cannot
\* hold a backquote, so the model writes an apostrophe in its place.  Either
\* character, like the spaces of the message, is outside the version grammar.
ErrUnexpected(tok) == "Unexpected '" \o tok \o "'"
ErrOverflow(tok) == "The value '" \o tok \o "' overflows the range of an u64"

ClassOf(c) ==
    IF c \in DigitSet THEN "number"
    ELSE IF c \in AlphaSet THEN "alpha"
    ELSE IF c = "." THEN "dot"
    ELSE IF c = "-" THEN "hyphen"
    ELSE IF c = "+" THEN "plus"
    ELSE IF c \in WhiteSet THEN "space"
    ELSE "unexpected"

\* the erroneous input: the run of characters of one class that starts at i
RECURSIVE RunAt(_, _, _)
RunAt(s, i, cls) ==
    IF i > Len(s) \/ ClassOf(Ch(s, i)) # cls THEN ""
    ELSE Ch(s, i) \o RunAt(s, i + 1, cls)

TokenAt(s, i) ==
    IF ClassOf(Ch(s, i)) \in {"number", "alpha", "space"} THEN RunAt(s, i, ClassOf(Ch(s, i)))
    ELSE Ch(s, i)

IsReleaseIdentifier(id) == ToLowercase(id) \in {"r", "final", "release"}

ParseFail(msg) == [ok |-> FALSE, msg |-> msg]

EmptyParts == [major |-> "", minor |-> "", patch |-> "", pre |-> "", build |-> ""]

\* the version the collected parts build, or the overflow error
FinishVersion(p) ==
    LET major == StripZeros(p.major)
        minor == IF p.minor = "" THEN "0" ELSE StripZeros(p.minor)
        patch == IF p.patch = "" THEN "0" ELSE StripZeros(p.patch)
        toBuild == p.pre # "" /\ IsReleaseIdentifier(p.pre)
    IN IF ~FitsU64(major) THEN ParseFail(ErrOverflow(p.major))
       ELSE IF ~FitsU64(minor) THEN ParseFail(ErrOverflow(p.minor))
       ELSE IF ~FitsU64(patch) THEN ParseFail(ErrOverflow(p.patch))
       ELSE [ok |-> TRUE,
             v |-> [major |-> major, minor |-> minor, patch |-> patch,
                    pre |-> IF toBuild THEN "" ELSE p.pre,
                    build |-> IF toBuild
                              THEN (IF p.build = "" THEN p.pre ELSE p.pre \o "." \o p.build)
                              ELSE p.build]]

\* the part of the version that state st is about to read
PartName(st) ==
    IF st \in {"ExpectMajor", "RequireMajor"} THEN "major"
    ELSE IF st = "ExpectMinor" THEN "minor"
    ELSE IF st \in {"ExpectPatch", "ExpectAdd"} THEN "patch"
    ELSE IF st = "ExpectPre" THEN "pre-release"
    ELSE "build"

ExpectStates == {"ExpectMajor", "RequireMajor", "ExpectMinor", "ExpectPatch",
                 "ExpectAdd", "ExpectPre", "ExpectBuild"}

\* state after a complete number or identifier when character class cls follows
AfterPart(st, cls) ==
    IF cls = "space" THEN "End"
    ELSE IF cls = "plus" /\ st # "ParseBuild" THEN "ExpectBuild"
    ELSE IF cls = "hyphen" /\ st \in {"ParseMajor", "ParseMinor", "ParsePatch"} THEN "ExpectPre"
    ELSE IF cls = "dot" /\ st = "ParseMajor" THEN "ExpectMinor"
    ELSE IF cls = "dot" /\ st = "ParseMinor" THEN "ExpectPatch"
    ELSE IF cls = "dot" /\ st = "ParsePatch" THEN "ExpectAdd"
    ELSE "Error"

\* position after the token that starts at i
TokenEnd(s, i) == i + Len(TokenAt(s, i))

\* The parser's state machine, one token (a run of digits, of letters or of
\* whitespace, or one other character) at a time, from position i in state st
\* with the parts p read so far.  LenientStep handles the token tok of
\* character class cls that ends before position next.
RECURSIVE LenientRun(_, _, _, _), LenientStep(_, _, _, _, _, _)
LenientRun(s, i, st, p) ==
    IF i > Len(s)
    THEN IF st \in ExpectStates THEN ParseFail(ErrMissing(PartName(st)))
         ELSE FinishVersion(p)
    ELSE LenientStep(s, st, p, TokenAt(s, i), ClassOf(Ch(s, i)), TokenEnd(s, i))

LenientStep(s, st, p, tok, cls, next) ==
    CASE st = "ExpectMajor" ->
            IF cls = "space" THEN LenientRun(s, next, st, p)
            ELSE IF tok \in {"v", "V"} THEN LenientRun(s, next, "RequireMajor", p)
            ELSE IF cls = "number" THEN LenientRun(s, next, "ParseMajor", [p EXCEPT !.major = tok])
            ELSE ParseFail(ErrUnexpected(tok))
      [] st = "RequireMajor" ->
            IF cls = "number" THEN LenientRun(s, next, "ParseMajor", [p EXCEPT !.major = tok])
            ELSE ParseFail(ErrUnexpected(tok))
      [] st = "ExpectMinor" ->
            IF cls = "number" THEN LenientRun(s, next, "ParseMinor", [p EXCEPT !.minor = tok])
            ELSE IF cls = "alpha" THEN LenientRun(s, next, "ParsePre", [p EXCEPT !.pre = tok])
            ELSE ParseFail(ErrUnexpected(tok))
      [] st = "ExpectPatch" ->
            IF cls = "number" THEN LenientRun(s, next, "ParsePatch", [p EXCEPT !.patch = tok])
            ELSE IF cls = "alpha" THEN LenientRun(s, next, "ParsePre", [p EXCEPT !.pre = tok])
            ELSE ParseFail(ErrUnexpected(tok))
      [] st = "ExpectAdd" ->
            IF cls = "number" THEN LenientRun(s, next, "ParseBuild", [p EXCEPT !.build = tok])
            ELSE IF cls = "alpha" THEN LenientRun(s, next, "ParsePre", [p EXCEPT !.pre = tok])
            ELSE ParseFail(ErrUnexpected(tok))
      [] st = "ExpectPre" ->
            IF cls \in {"number", "alpha"}
            THEN LenientRun(s, next, "ParsePre", [p EXCEPT !.pre = @ \o tok])
            ELSE ParseFail(ErrUnexpected(tok))
      [] st = "ParsePre" ->
            IF cls \in {"number", "alpha", "hyphen"}
            THEN LenientRun(s, next, st, [p EXCEPT !.pre = @ \o tok])
            ELSE IF cls = "dot" THEN LenientRun(s, next, "ExpectPre", [p EXCEPT !.pre = @ \o tok])
            ELSE IF AfterPart(st, cls) # "Error" THEN LenientRun(s, next, AfterPart(st, cls), p)
            ELSE ParseFail(ErrUnexpected(tok))
      [] st = "ExpectBuild" ->
            IF cls \in {"number", "alpha"}
            THEN LenientRun(s, next, "ParseBuild", [p EXCEPT !.build = @ \o tok])
            ELSE ParseFail(ErrUnexpected(tok))
      [] st = "ParseBuild" ->
            IF cls \in {"number", "alpha", "hyphen"}
            THEN LenientRun(s, next, st, [p EXCEPT !.build = @ \o tok])
            ELSE IF cls = "dot" THEN LenientRun(s, next, "ExpectBuild", [p EXCEPT !.build = @ \o tok])
            ELSE IF AfterPart(st, cls) # "Error" THEN LenientRun(s, next, AfterPart(st, cls), p)
            ELSE ParseFail(ErrUnexpected(tok))
      [] st = "End" ->     \* only whitespace may follow
            IF cls = "space" THEN LenientRun(s, next, st, p) ELSE ParseFail(ErrUnexpected(tok))
      [] OTHER ->          \* ParseMajor, ParseMinor, ParsePatch: the number is complete
            IF AfterPart(st, cls) # "Error" THEN LenientRun(s, next, AfterPart(st, cls), p)
            ELSE ParseFail(ErrUnexpected(tok))

parse_into(text) == LenientRun(text, 1, "ExpectMajor", EmptyParts)

\* The fallback both callers share (lib.rs:323-329, version_tools.rs:14-19):
\*   match parse_into(value) { Ok(v) => v,
\*       Err(err) => parse_into(format!("0.0.0+{}", err)).unwrap() }
\* unwrap() panics when the second parse fails too.
FallbackResult(second) ==
    IF second.ok THEN [status |-> "ok", v |-> second.v]
    ELSE [status |-> "panic", v |-> NewVersion("0", "0", "0")]

ParseResult(first) ==
    IF first.ok THEN [status |-> "ok", v |-> first.v]
    ELSE FallbackResult(parse_into("0.0.0+" \o first.msg))

ParseOrFallback(text) == ParseResult(parse_into(text))

---------------------------------------------------------------------------
(* The Field Model: struct Modinfo and its parts (lib.rs:97-208).          *)
(* Option<Cow<str>> is a sequence: <<>> for None, <<s>> for Some(s).       *)

None == <<>>
Some(s) == <<s>>
is_none(o) == o = <<>>
is_some(o) == o # <<>>
unwrap(o) == o[1]

\* impl Default for ModinfoValueVersion (lib.rs:154-161)
DefaultValueVersion == [value |-> NewVersion("0", "1", "0"), compat |-> None]

\* impl Default for ModinfoValueMeta (lib.rs:109-116)
DefaultValueMeta == [version |-> "V2", path |-> ""]

\* #[derive(Default)] for Modinfo, Modinfo::new
DefaultModinfo ==
    [author |-> None, description |-> None, display_name |-> None, name |-> None,
     version |-> DefaultValueVersion, website |-> None, meta |-> DefaultValueMeta]

\* get_value_for as it would be without the to_lowercase() of impls.rs:42: a
\* faulty variant, against which the case-insensitivity of C10 is measured
get_value_for_exact(m, field) ==
    CASE field = "author" -> m.author
      [] field = "description" -> m.description
      [] field = "display_name" -> m.display_name
      [] field = "name" -> m.name
      [] field = "website" -> m.website
      [] field = "compat" -> m.version.compat
      [] OTHER -> None

\* Modinfo::get_value_for
get_value_for(m, field) ==
    LET f == ToLowercase(field) IN
    CASE f = "author" -> m.author
      [] f = "description" -> m.description
      [] f = "display_name" -> m.display_name
      [] f = "name" -> m.name
      [] f = "website" -> m.website
      [] f = "compat" -> m.version.compat
      [] OTHER -> None

\* Modinfo::get_version
get_version(m) == m.version.value

\* Modinfo::get_modinfo_version
get_modinfo_version(m) == m.meta.version

\* the Modinfo after its version.value was assigned the parser's result r,
\* or the panic of the unwrap()
VersionAssigned(m, r) ==
    IF r.status = "ok" THEN [status |-> "ok", m |-> [m EXCEPT !.version.value = r.v]]
    ELSE [status |-> "panic", m |-> m]

\* VersionTools::set_version on m.version.value: the new Modinfo and how the call ended
version_set_version(m, text) == VersionAssigned(m, ParseOrFallback(text))

\* Modinfo::set_value_for
set_value_for(m, field, value) ==
    LET f == ToLowercase(field) IN
    CASE f = "author" -> [status |-> "ok", m |-> [m EXCEPT !.author = Some(value)]]
      [] f = "description" -> [status |-> "ok", m |-> [m EXCEPT !.description = Some(value)]]
      [] f = "display_name" -> [status |-> "ok", m |-> [m EXCEPT !.display_name = Some(value)]]
      [] f = "name" -> [status |-> "ok", m |-> [m EXCEPT !.name = Some(value)]]
      [] f = "website" -> [status |-> "ok", m |-> [m EXCEPT !.website = Some(value)]]
      [] f = "version" -> version_set_version(m, value)
      [] f = "compat" -> [status |-> "ok", m |-> [m EXCEPT !.version.compat = Some(value)]]
      [] OTHER -> [status |-> "ok", m |-> m]

\* Modinfo::set_version
set_version(m, version) == set_value_for(m, "version", version)

\* Modinfo::set_modinfo_version
set_modinfo_version(m, version) == [m EXCEPT !.meta.version = version]

---------------------------------------------------------------------------
(* VersionTools::bump_major / bump_minor / bump_patch.  `+= 1` on a u64    *)
(* that holds u64::MAX panics in a build with overflow checks and wraps to *)
(* 0 in a build without them: wrap says which build runs.                  *)

AddOne(d, wrap) ==
    IF d # U64Max THEN [status |-> "ok", n |-> Succ(d)]
    ELSE IF wrap THEN [status |-> "ok", n |-> "0"]
    ELSE [status |-> "panic", n |-> d]

bump_major(v, wrap) ==
    LET a == AddOne(v.major, wrap) IN
    IF a.status = "panic" THEN [status |-> "panic", v |-> v]
    ELSE [status |-> "ok",
          v |-> [major |-> a.n, minor |-> "0", patch |-> "0", pre |-> "", build |-> ""]]

bump_minor(v, wrap) ==
    LET a == AddOne(v.minor, wrap) IN
    IF a.status = "panic" THEN [status |-> "panic", v |-> v]
    ELSE [status |-> "ok",
          v |-> [major |-> v.major, minor |-> a.n, patch |-> "0", pre |-> "", build |-> ""]]

bump_patch(v, wrap) ==
    LET a == AddOne(v.patch, wrap) IN
    IF a.status = "panic" THEN [status |-> "panic", v |-> v]
    ELSE [status |-> "ok",
          v |-> [major |-> v.major, minor |-> v.minor, patch |-> a.n, pre |-> "", build |-> ""]]

---------------------------------------------------------------------------
(* VersionTools::add_pre / add_build (version_tools.rs:43-49) over         *)
(* semver's Prerelease::new and BuildMetadata::new.  The text is a         *)
(* dot-separated list of identifiers of letters, digits and hyphens; no    *)
(* identifier is empty; a prerelease identifier of digits only has no      *)
(* leading zero; the empty text is Prerelease::EMPTY / BuildMetadata::EMPTY.*)

\* the dot-separated segments of s from position i on; cur is the one being read
RECURSIVE SplitDots(_, _, _)
SplitDots(s, i, cur) ==
    IF i > Len(s) THEN <<cur>>
    ELSE IF Ch(s, i) = "." THEN <<cur>> \o SplitDots(s, i + 1, "")
    ELSE SplitDots(s, i + 1, cur \o Ch(s, i))

IdentChars == AlphaSet \cup DigitSet \cup {"-"}

ValidIdentifier(seg, numeric) ==
    /\ seg # ""
    /\ CharsOf(seg) \subseteq IdentChars
    /\ (numeric /\ CharsOf(seg) \subseteq DigitSet /\ Len(seg) > 1) => Head(seg) # "0"

ValidIdentifiers(segs, numeric) ==
    \A j \in 1..Len(segs) : ValidIdentifier(segs[j], numeric)

\* Prerelease::new(text).is_ok()
Prerelease_new(text) == text = "" \/ ValidIdentifiers(SplitDots(text, 1, ""), TRUE)

\* BuildMetadata::new(text).is_ok()
BuildMetadata_new(text) == text = "" \/ ValidIdentifiers(SplitDots(text, 1, ""), FALSE)

\* add_pre as it would be if it rebuilt the whole version field, leaving the
\* compat out: a faulty variant, against which the frame of C16 is measured
add_pre_with_compat(m, pre) ==
    [status |-> "ok", m |-> [m EXCEPT !.version = [value |-> [m.version.value EXCEPT !.pre = pre],
                                                  compat |-> None]]]

\* VersionTools::add_pre on m.version.value; unwrap() panics on an Err
add_pre(m, pre) ==
    IF Prerelease_new(pre)
    THEN [status |-> "ok", m |-> [m EXCEPT !.version.value.pre = pre]]
    ELSE [status |-> "panic", m |-> m]

\* VersionTools::add_build on m.version.value; unwrap() panics on an Err
add_build(m, build) ==
    IF BuildMetadata_new(build)
    THEN [status |-> "ok", m |-> [m EXCEPT !.version.value.build = build]]
    ELSE [status |-> "panic", m |-> m]

\* set_file_path as it would be if it rebuilt the metadata around the path: a
\* faulty variant, against which the frame of C15 is measured
set_file_path_reset(m, path) == [m EXCEPT !.meta = [DefaultValueMeta EXCEPT !.path = path]]

\* Modinfo::set_file_path
set_file_path(m, path) == [m EXCEPT !.meta.path = path]

---------------------------------------------------------------------------
(* impl ToString for Modinfo (lib.rs:210-262): the events handed to the    *)
(* quick_xml Writer, and the text the Writer makes of them.                *)

Attr(key, value) == <<key, value>>

Event(kind, name, attrs) == [kind |-> kind, name |-> name, attrs |-> attrs]

\* the field order of the for loop (lib.rs:228)
FieldOrder == <<"name", "display_name", "version", "description", "author", "website">>

\* the `continue` as it would be if only website were skipped: a faulty
\* variant, against which the Legacy element list of C9 is measured
SkipWebsiteOnly(is_v2, field) == ~is_v2 /\ field = "website"

\* `continue` of lib.rs:229-231
SkipField(is_v2, field) == ~is_v2 /\ (field = "website" \/ field = "display_name")

\* the element of one field as it would be without the compat attribute of
\* lib.rs:248-253: a faulty variant, against which the round trip of C2 is
\* measured
FieldEventNoCompat(m, field) ==
    Event("Empty", to_case_Pascal(field),
          <<Attr("value", IF field = "version" THEN VersionToString(get_version(m))
                          ELSE IF is_some(get_value_for(m, field))
                               THEN unwrap(get_value_for(m, field))
                          ELSE "")>>)

\* the element of one field (lib.rs:233-255)
FieldEvent(m, field) ==
    LET value == IF field = "version" THEN VersionToString(get_version(m))
                 ELSE IF is_some(get_value_for(m, field)) THEN unwrap(get_value_for(m, field))
                 ELSE ""
        compat == IF field = "version" /\ is_some(m.version.compat)
                  THEN <<Attr("compat", unwrap(m.version.compat))>>
                  ELSE <<>>
    IN Event("Empty", to_case_Pascal(field), <<Attr("value", value)>> \o compat)

RECURSIVE FieldEvents(_, _, _)
FieldEvents(m, is_v2, i) ==
    IF i > Len(FieldOrder) THEN <<>>
    ELSE IF SkipField(is_v2, FieldOrder[i]) THEN FieldEvents(m, is_v2, i + 1)
    ELSE <<FieldEvent(m, FieldOrder[i])>> \o FieldEvents(m, is_v2, i + 1)

\* every writer.write_event call of to_string, in order
WrittenEvents(m) ==
    LET is_v2 == m.meta.version = "V2"
        root_str == IF is_v2 THEN "xml" ELSE "ModInfo"
    IN (IF is_v2
        THEN <<Event("Decl", "xml", <<Attr("version", "1.0"), Attr("encoding", "UTF-8")>>)>>
        ELSE <<>>)
       \o <<Event("Start", root_str, <<>>)>>
       \o FieldEvents(m, is_v2, 1)
       \o <<Event("End", root_str, <<>>)>>

\* BytesStart::push_attribute with an Attribute value: the bytes are written
\* as they are, between double quotes, with no escaping
RECURSIVE AttrsText(_)
AttrsText(attrs) ==
    IF attrs = <<>> THEN ""
    ELSE " " \o attrs[1][1] \o "=\"" \o attrs[1][2] \o "\"" \o AttrsText(Tail(attrs))

EventText(e) ==
    CASE e.kind = "Decl" -> "<?xml" \o AttrsText(e.attrs) \o "?>"
      [] e.kind = "Start" -> "<" \o e.name \o AttrsText(e.attrs) \o ">"
      [] e.kind = "Empty" -> "<" \o e.name \o AttrsText(e.attrs) \o "/>"
      [] OTHER -> "</" \o e.name \o ">"

RECURSIVE Indent(_)
Indent(level) == IF level <= 0 THEN "" ELSE "  " \o Indent(level - 1)

\* Writer::new_with_indent(.., b' ', 2): every event but the first starts a
\* new line, indented by two spaces per open element
RECURSIVE WriteEvents(_, _, _)
WriteEvents(evs, level, first) ==
    IF evs = <<>> THEN ""
    ELSE LET e == evs[1]
             lvl == IF e.kind = "End" THEN level - 1 ELSE level
             brk == IF first THEN "" ELSE "\n" \o Indent(lvl)
         IN brk \o EventText(e)
                \o WriteEvents(Tail(evs), IF e.kind = "Start" THEN lvl + 1 ELSE lvl, FALSE)

\* Modinfo::to_string
to_string(m) == WriteEvents(WrittenEvents(m), 0, TRUE)

---------------------------------------------------------------------------
(* The quick_xml Reader over the text, as from_str drives it               *)
(* (read_event_into, lib.rs:274), and Attributes (lib.rs:286, 351-362).    *)

\* least j >= i with s[j] = c, or 0
RECURSIVE FindChar(_, _, _)
FindChar(s, i, c) ==
    IF i > Len(s) THEN 0
    ELSE IF Ch(s, i) = c THEN i
    ELSE FindChar(s, i + 1, c)

\* the '>' that ends the start tag opened before i: quoted text is skipped
RECURSIVE FindTagEnd(_, _, _)
FindTagEnd(s, i, quote) ==
    IF i > Len(s) THEN 0
    ELSE LET c == Ch(s, i) IN
         IF quote # "" THEN FindTagEnd(s, i + 1, IF c = quote THEN "" ELSE quote)
         ELSE IF c = ">" THEN i
         ELSE IF c \in {"\"", "'"} THEN FindTagEnd(s, i + 1, c)
         ELSE FindTagEnd(s, i + 1, "")

\* least j >= i with s[j] not whitespace, or Len(s) + 1
RECURSIVE SkipWhite(_, _)
SkipWhite(s, i) ==
    IF i > Len(s) THEN i
    ELSE IF Ch(s, i) \in WhiteSet THEN SkipWhite(s, i + 1)
    ELSE i

\* least j >= i with s[j] whitespace or '=', or Len(s) + 1
RECURSIVE KeyEnd(_, _)
KeyEnd(s, i) ==
    IF i > Len(s) THEN i
    ELSE IF Ch(s, i) \in WhiteSet \/ Ch(s, i) = "=" THEN i
    ELSE KeyEnd(s, i + 1)

\* BytesStart::name: the tag's text up to its first whitespace
RECURSIVE NameEnd(_, _)
NameEnd(s, i) ==
    IF i > Len(s) THEN i
    ELSE IF Ch(s, i) \in WhiteSet THEN i
    ELSE NameEnd(s, i + 1)

TagName(tag) == SubSeq(tag, 1, NameEnd(tag, 1) - 1)

RECURSIVE HasKey(_, _)
HasKey(attrs, key) ==
    IF attrs = <<>> THEN FALSE
    ELSE attrs[1][1] = key \/ HasKey(Tail(attrs), key)

\* The Attributes iterator over the tag's text from position i: the
\* attributes read, or ok = FALSE where an item of the iterator is an Err
\* (no '=', no quoted value, no closing quote, a key given twice).
RECURSIVE ReadAttrs(_, _, _)
ReadAttrs(tag, i, acc) ==
    LET k == SkipWhite(tag, i) IN
    IF k > Len(tag) THEN [ok |-> TRUE, attrs |-> acc]
    ELSE
    LET ke == KeyEnd(tag, k)
        key == SubSeq(tag, k, ke - 1)
        eq == SkipWhite(tag, ke)
        q == SkipWhite(tag, eq + 1)
    IN
    IF key = "" \/ eq > Len(tag) \/ Ch(tag, eq) # "=" THEN [ok |-> FALSE, attrs |-> acc]
    ELSE IF q > Len(tag) \/ Ch(tag, q) \notin {"\"", "'"} THEN [ok |-> FALSE, attrs |-> acc]
    ELSE LET close == FindChar(tag, q + 1, Ch(tag, q)) IN
         IF close = 0 THEN [ok |-> FALSE, attrs |-> acc]
         ELSE IF HasKey(acc, key) THEN [ok |-> FALSE, attrs |-> acc]
         ELSE ReadAttrs(tag, close + 1, Append(acc, Attr(key, SubSeq(tag, q + 1, close - 1))))

\* the HashMap parse_attributes collects from the iterator's items
LowerKeys(r) ==
    [ok |-> r.ok,
     attrs |-> [j \in 1..Len(r.attrs) |-> Attr(ToLowercase(r.attrs[j][1]), r.attrs[j][2])]]

\* parse_attributes (lib.rs:351-362): keys lowercased, a later key replaces
\* an earlier one; a.unwrap() panics on an Err item
parse_attributes(tag) == LowerKeys(ReadAttrs(tag, NameEnd(tag, 1), <<>>))

contains_key(attrs, key) == HasKey(attrs, key)

\* attributes[key] of the HashMap: the value inserted last
Index(attrs, key) ==
    attrs[CHOOSE j \in 1..Len(attrs) :
            /\ attrs[j][1] = key
            /\ \A k \in (j + 1)..Len(attrs) : attrs[k][1] # key][2]

\* the Event::Start arm (lib.rs:278-283)
OnStart(m, tag) ==
    [m EXCEPT !.meta.version = IF TagName(tag) = "xml" THEN "V2" ELSE "V1"]

\* the Version arm (lib.rs:316-332)
OnVersion(m, attributes, value) ==
    VersionAssigned([m EXCEPT !.version.compat =
                        IF contains_key(attributes, "compat")
                        THEN Some(Index(attributes, "compat")) ELSE None],
                    ParseOrFallback(value))

\* the Name arm as it would be without the is_none() test of lib.rs:306: a
\* faulty variant, against which the display-name rule of C4 is measured
OnNameAlways(m, value) ==
    [m EXCEPT !.display_name = Some(to_case_Title(value)), !.name = Some(value)]

\* the Name arm (lib.rs:305-315)
OnName(m, value) ==
    [m EXCEPT !.display_name = IF is_none(m.display_name) THEN Some(to_case_Title(value)) ELSE @,
              !.name = Some(value)]

\* the match on the element's name (lib.rs:289-339)
OnElement(m, name, attributes, value) ==
    CASE name = "Author" -> [status |-> "ok", m |-> [m EXCEPT !.author = Some(value)]]
      [] name = "Description" -> [status |-> "ok", m |-> [m EXCEPT !.description = Some(value)]]
      [] name = "DisplayName" -> [status |-> "ok", m |-> [m EXCEPT !.display_name = Some(value)]]
      [] name = "Name" -> [status |-> "ok", m |-> OnName(m, value)]
      [] name = "Version" -> OnVersion(m, attributes, value)
      [] name = "Website" -> [status |-> "ok", m |-> [m EXCEPT !.website = Some(value)]]
      [] OTHER -> [status |-> "ok", m |-> m]

\* lib.rs:286-287 as they would be if an element without a value attribute
\* were passed over: a faulty variant, against which the hard failure of C14
\* is measured
OnAttributesSkip(m, name, parsed) ==
    IF ~parsed.ok THEN [status |-> "panic", m |-> m]
    ELSE IF ~contains_key(parsed.attrs, "value") THEN [status |-> "ok", m |-> m]
    ELSE OnElement(m, name, parsed.attrs, Index(parsed.attrs, "value"))

\* lib.rs:286-287: the unwrap() of parse_attributes and attributes["value"]
OnAttributes(m, name, parsed) ==
    IF ~parsed.ok \/ ~contains_key(parsed.attrs, "value") THEN [status |-> "panic", m |-> m]
    ELSE OnElement(m, name, parsed.attrs, Index(parsed.attrs, "value"))

\* the Event::Empty arm (lib.rs:285-340)
OnEmpty(m, tag) == OnAttributes(m, TagName(tag), parse_attributes(tag))

\* text of s from i up to, not including, the first "?>" or the end
RECURSIVE FindDeclEnd(_, _)
FindDeclEnd(s, i) ==
    IF i >= Len(s) THEN 0
    ELSE IF Ch(s, i) = "?" /\ Ch(s, i + 1) = ">" THEN i
    ELSE FindDeclEnd(s, i + 1)

RECURSIVE TrimRight(_)
TrimRight(s) ==
    IF s # "" /\ Ch(s, Len(s)) \in WhiteSet THEN TrimRight(SubSeq(s, 1, Len(s) - 1)) ELSE s

\* The loop of from_str (lib.rs:273-345) from position i of the text; open
\* is the Reader's stack of open element names.  A Reader error is the
\* panic! of lib.rs:275.  ReadTag handles the start or empty tag that opens
\* at i and ends at e; AfterEmpty goes on after the Empty arm returned r.
RECURSIVE ReadLoop(_, _, _, _), ReadTag(_, _, _, _, _), AfterEmpty(_, _, _, _)
ReadLoop(s, i, open, m) ==
    IF i > Len(s) THEN [status |-> "ok", m |-> m]                          \* Event::Eof
    ELSE IF Ch(s, i) # "<"
    THEN LET lt == FindChar(s, i, "<") IN                                  \* Event::Text
         IF lt = 0 THEN [status |-> "ok", m |-> m] ELSE ReadLoop(s, lt, open, m)
    ELSE IF i = Len(s) THEN [status |-> "panic", m |-> m]
    ELSE IF Ch(s, i + 1) = "?"
    THEN LET e == FindDeclEnd(s, i + 2) IN                                 \* Event::Decl / PI
         IF e = 0 THEN [status |-> "panic", m |-> m] ELSE ReadLoop(s, e + 2, open, m)
    ELSE IF Ch(s, i + 1) = "!"
    THEN LET e == FindChar(s, i + 2, ">") IN                               \* comment, DOCTYPE
         IF e = 0 THEN [status |-> "panic", m |-> m] ELSE ReadLoop(s, e + 1, open, m)
    ELSE IF Ch(s, i + 1) = "/"
    THEN LET e == FindChar(s, i + 2, ">") IN                               \* Event::End
         IF e = 0 \/ open = <<>> THEN [status |-> "panic", m |-> m]
         ELSE IF TrimRight(SubSeq(s, i + 2, e - 1)) # open[Len(open)]
              THEN [status |-> "panic", m |-> m]
         ELSE ReadLoop(s, e + 1, SubSeq(open, 1, Len(open) - 1), m)
    ELSE ReadTag(s, i, FindTagEnd(s, i + 1, ""), open, m)

ReadTag(s, i, e, open, m) ==
    IF e = 0 THEN [status |-> "panic", m |-> m]
    ELSE IF e > i + 1 /\ Ch(s, e - 1) = "/"
    THEN AfterEmpty(s, e, open, OnEmpty(m, SubSeq(s, i + 1, e - 2)))       \* Event::Empty
    ELSE ReadLoop(s, e + 1, Append(open, TagName(SubSeq(s, i + 1, e - 1))), \* Event::Start
                  OnStart(m, SubSeq(s, i + 1, e - 1)))

AfterEmpty(s, e, open, r) ==
    IF r.status # "ok" THEN r ELSE ReadLoop(s, e + 1, open, r.m)

\* Modinfo::from_str
from_str(text) == ReadLoop(text, 1, <<>>, DefaultModinfo)

---------------------------------------------------------------------------
(* pub fn parse (lib.rs:386-415).  file is what the path names when parse  *)
(* runs: "absent" (try_exists is Ok(false)), "denied" (try_exists or       *)
(* read_to_string fails) or "present" with the text it holds.              *)

\* the checks as they would be if the name were tested first: a faulty
\* variant, against which the order of C17 is measured
ValidatedNameFirst(path, r) ==
    IF r.status # "ok" THEN r
    ELSE IF is_none(r.m.name) THEN [status |-> "NoModinfoName", m |-> r.m]
    ELSE IF is_none(r.m.author) THEN [status |-> "NoModinfoAuthor", m |-> r.m]
    ELSE IF is_none(r.m.description) THEN [status |-> "NoModinfoDescription", m |-> r.m]
    ELSE [status |-> "ok", m |-> [r.m EXCEPT !.meta.path = path]]

\* the checks of lib.rs:394-413 on what from_str returned
Validated(path, r) ==
    IF r.status # "ok" THEN r
    ELSE IF is_none(r.m.author) THEN [status |-> "NoModinfoAuthor", m |-> r.m]
    ELSE IF is_none(r.m.description) THEN [status |-> "NoModinfoDescription", m |-> r.m]
    ELSE IF is_none(r.m.name) THEN [status |-> "NoModinfoName", m |-> r.m]
    ELSE IF VersionToString(r.m.version.value) = ""
         THEN [status |-> "NoModinfoVersion", m |-> r.m]
    ELSE [status |-> "ok", m |-> [r.m EXCEPT !.meta.path = path]]

parse(path, file, text) ==
    IF file = "absent" THEN [status |-> "FsNotFound", m |-> DefaultModinfo]
    ELSE IF file = "denied" THEN [status |-> "IoError", m |-> DefaultModinfo]
    ELSE Validated(path, from_str(text))

---------------------------------------------------------------------------
(* Documents given to from_str and parse.  A shape says what the document  *)
(* holds; DocText writes it out the way the repository's fixtures are      *)
(* written (tests/fixtures/mod.rs): one element per line, indented, each   *)
(* closed with " />".  Beyond the fixtures a shape may hold an element of  *)
(* another name (unknown: the text between its "<" and " />"), write the   *)
(* value attribute of one element (keyed) under another key, repeat the    *)
(* Version element without compat (extraVersion) and close the root under  *)
(* another name (close).                                                   *)

NoShape ==
    [decl |-> FALSE, root |-> "", wrapper |-> "", displayFirst |-> FALSE,
     name |-> None, display_name |-> None, version |-> None, compat |-> None,
     description |-> None, author |-> None, website |-> None, extraName |-> None,
     unknown |-> "", keyed |-> "", key |-> "value", extraVersion |-> None, close |-> ""]

KeyedElemText(tag, key, value, compat) ==
    "    <" \o tag \o " " \o key \o "=\"" \o value \o "\""
      \o (IF is_some(compat) THEN " compat=\"" \o unwrap(compat) \o "\"" ELSE "")
      \o " />\n"

ElemText(tag, value, compat) == KeyedElemText(tag, "value", value, compat)

OptElem(tag, o) == IF is_some(o) THEN ElemText(tag, unwrap(o), None) ELSE ""

\* the element tag of shape sh, when the shape has it
ShapeElem(sh, tag, o, compat) ==
    IF is_none(o) THEN ""
    ELSE KeyedElemText(tag, IF sh.keyed = tag THEN sh.key ELSE "value", unwrap(o), compat)

DocText(sh) ==
    "\n"
      \o (IF sh.decl THEN "  <?xml version=\"1.0\" encoding=\"UTF-8\"?>\n" ELSE "")
      \o "  <" \o sh.root \o ">\n"
      \o (IF sh.wrapper # "" THEN "   <" \o sh.wrapper \o ">\n" ELSE "")
      \o (IF sh.displayFirst THEN ShapeElem(sh, "DisplayName", sh.display_name, None) ELSE "")
      \o ShapeElem(sh, "Name", sh.name, None)
      \o (IF sh.unknown # "" THEN "    <" \o sh.unknown \o " />\n" ELSE "")
      \o (IF sh.displayFirst THEN "" ELSE ShapeElem(sh, "DisplayName", sh.display_name, None))
      \o ShapeElem(sh, "Version", sh.version, sh.compat)
      \o OptElem("Version", sh.extraVersion)
      \o ShapeElem(sh, "Description", sh.description, None)
      \o ShapeElem(sh, "Author", sh.author, None)
      \o ShapeElem(sh, "Website", sh.website, None)
      \o OptElem("Name", sh.extraName)
      \o (IF sh.wrapper # "" THEN "   </" \o sh.wrapper \o ">\n" ELSE "")
      \o "  </" \o (IF sh.close = "" THEN sh.root ELSE sh.close) \o ">\n"

Document(sh) == [text |-> DocText(sh), shape |-> sh]

\* a text that was not written from a shape (the output of to_string)
RawDocument(text) == [text |-> text, shape |-> NoShape]

---------------------------------------------------------------------------
(* The operations as actions.                                              *)

MaxSteps == 3

Call(op, arg1, arg2, aux) ==
    [op |-> op, arg1 |-> arg1, arg2 |-> arg2, aux |-> aux, before |-> modinfo]

\* a panic ends the process: nothing runs after it
Running == outcome # "panic"

\* Modinfo::new / Modinfo::default
New ==
    /\ Running
    /\ steps < MaxSteps
    /\ modinfo' = DefaultModinfo
    /\ call' = Call("new", "", "", "")
    /\ outcome' = "ok"
    /\ steps' = steps + 1
    /\ UNCHANGED <<disk, doc, xml, emitted, ret>>

SetValueFor(field, value) ==
    /\ Running
    /\ steps < MaxSteps
    /\ \E r \in {set_value_for(modinfo, field, value)} :
         /\ modinfo' = r.m
         /\ outcome' = r.status
    /\ call' = Call("set_value_for", field, value, "")
    /\ steps' = steps + 1
    /\ UNCHANGED <<disk, doc, xml, emitted, ret>>

GetValueFor(field) ==
    /\ Running
    /\ steps < MaxSteps
    /\ ret' = get_value_for(modinfo, field)
    /\ call' = Call("get_value_for", field, "", "")
    /\ outcome' = "ok"
    /\ steps' = steps + 1
    /\ UNCHANGED <<disk, modinfo, doc, xml, emitted>>

SetVersion(text) ==
    /\ Running
    /\ steps < MaxSteps
    /\ \E r \in {set_version(modinfo, text)} :
         /\ modinfo' = r.m
         /\ outcome' = r.status
    /\ call' = Call("set_version", text, "", "")
    /\ steps' = steps + 1
    /\ UNCHANGED <<disk, doc, xml, emitted, ret>>

SetModinfoVersion(version) ==
    /\ Running
    /\ steps < MaxSteps
    /\ modinfo' = set_modinfo_version(modinfo, version)
    /\ call' = Call("set_modinfo_version", version, "", "")
    /\ outcome' = "ok"
    /\ steps' = steps + 1
    /\ UNCHANGED <<disk, doc, xml, emitted, ret>>

\* the build that runs matters only where the bumped number is u64::MAX
BuildNote(n, wrap) == IF n # U64Max THEN "" ELSE IF wrap THEN "wrapping" ELSE "checked"

Bumped(op, r, note) ==
    /\ modinfo' = [modinfo EXCEPT !.version.value = r.v]
    /\ outcome' = r.status
    /\ call' = Call(op, "", "", note)
    /\ steps' = steps + 1
    /\ UNCHANGED <<disk, doc, xml, emitted, ret>>

\* Modinfo::bump_version_major
BumpVersionMajor(wrap) ==
    /\ Running
    /\ steps < MaxSteps
    /\ Bumped("bump_version_major", bump_major(modinfo.version.value, wrap),
              BuildNote(modinfo.version.value.major, wrap))

\* Modinfo::bump_version_minor
BumpVersionMinor(wrap) ==
    /\ Running
    /\ steps < MaxSteps
    /\ Bumped("bump_version_minor", bump_minor(modinfo.version.value, wrap),
              BuildNote(modinfo.version.value.minor, wrap))

\* Modinfo::bump_version_patch
BumpVersionPatch(wrap) ==
    /\ Running
    /\ steps < MaxSteps
    /\ Bumped("bump_version_patch", bump_patch(modinfo.version.value, wrap),
              BuildNote(modinfo.version.value.patch, wrap))

\* Modinfo::add_version_pre
AddVersionPre(pre) ==
    /\ Running
    /\ steps < MaxSteps
    /\ \E r \in {add_pre(modinfo, pre)} :
         /\ modinfo' = r.m
         /\ outcome' = r.status
    /\ call' = Call("add_version_pre", pre, "", "")
    /\ steps' = steps + 1
    /\ UNCHANGED <<disk, doc, xml, emitted, ret>>

\* Modinfo::add_version_build
AddVersionBuild(build) ==
    /\ Running
    /\ steps < MaxSteps
    /\ \E r \in {add_build(modinfo, build)} :
         /\ modinfo' = r.m
         /\ outcome' = r.status
    /\ call' = Call("add_version_build", build, "", "")
    /\ steps' = steps + 1
    /\ UNCHANGED <<disk, doc, xml, emitted, ret>>

\* Modinfo::set_file_path
SetFilePath(path) ==
    /\ Running
    /\ steps < MaxSteps
    /\ modinfo' = set_file_path(modinfo, path)
    /\ call' = Call("set_file_path", path, "", "")
    /\ outcome' = "ok"
    /\ steps' = steps + 1
    /\ UNCHANGED <<disk, doc, xml, emitted, ret>>

\* the path Modinfo::write writes to (impls.rs:12-19)
WritePath(m, file) == IF is_some(file) THEN unwrap(file) ELSE m.meta.path

\* Modinfo::write(file).  fs::write fails on the empty path, and where the
\* file system refuses (refused); the `?` returns that as IoError.
Write(file, refused) ==
    /\ Running
    /\ steps < MaxSteps
    /\ \E path \in {WritePath(modinfo, file)} :
         IF path = "" \/ refused
         THEN outcome' = "IoError" /\ disk' = disk
         ELSE /\ outcome' = "ok"
              /\ disk' = {f \in disk : f[1] # path} \cup {<<path, to_string(modinfo)>>}
    /\ call' = Call("write", IF is_some(file) THEN unwrap(file) ELSE "", "",
                    IF refused THEN "refused" ELSE "")
    /\ steps' = steps + 1
    /\ UNCHANGED <<modinfo, doc, xml, emitted, ret>>

\* Modinfo::to_string
ToStr ==
    /\ Running
    /\ steps < MaxSteps
    /\ emitted' = WrittenEvents(modinfo)
    /\ xml' = to_string(modinfo)
    /\ call' = Call("to_string", "", "", "")
    /\ outcome' = "ok"
    /\ steps' = steps + 1
    /\ UNCHANGED <<disk, modinfo, doc, ret>>

\* Modinfo::from_str(d.text): the caller holds the new Modinfo when it returns
FromStr(d) ==
    /\ Running
    /\ steps < MaxSteps
    /\ \E r \in {from_str(d.text)} :
         /\ modinfo' = IF r.status = "ok" THEN r.m ELSE modinfo
         /\ outcome' = r.status
    /\ doc' = d
    /\ call' = Call("from_str", "", "", "")
    /\ steps' = steps + 1
    /\ UNCHANGED <<disk, xml, emitted, ret>>

\* modinfo::parse(path) while path names file (holding d.text when present)
Parse(path, file, d) ==
    /\ Running
    /\ steps < MaxSteps
    /\ \E r \in {parse(path, file, d.text)} :
         /\ modinfo' = IF r.status = "ok" THEN r.m ELSE modinfo
         /\ outcome' = r.status
    /\ doc' = IF file = "present" THEN d ELSE RawDocument("")
    /\ call' = Call("parse", path, "", file)
    /\ steps' = steps + 1
    /\ UNCHANGED <<disk, xml, emitted, ret>>

---------------------------------------------------------------------------
(* Spec: the life of one Modinfo from Modinfo::new on, MaxSteps operations *)
(* long, under the setters, the version tools, to_string and from_str.     *)

ApiFields == {"author", "Name", "display_name", "WEBSITE", "compat", "Description",
              "Version", "foo"}

ApiValues == {"Joe", "1.2.3"}

ApiVersions == {"1.2.3-foo+bar", "1.2", "garbage", "",
                "18446744073709551615.18446744073709551615.18446744073709551615"}

ApiShapes ==
    {[NoShape EXCEPT !.root = "ModInfo", !.name = Some("SomeInternalName"),
                     !.version = Some("1.2.3"), !.compat = Some("A99"),
                     !.description = Some("Mod to show"), !.author = Some("Name")],
     [NoShape EXCEPT !.root = "xml", !.decl = TRUE, !.name = Some("SomeInternalName"),
                     !.version = Some("not a version"),
                     !.description = Some("Mod to show"), !.author = Some("Name")]}

Init ==
    /\ modinfo = DefaultModinfo
    /\ doc = RawDocument("")
    /\ xml = ""
    /\ emitted = <<>>
    /\ call = [op |-> "new", arg1 |-> "", arg2 |-> "", aux |-> "", before |-> DefaultModinfo]
    /\ outcome = "ok"
    /\ ret = None
    /\ disk = {}
    /\ steps = 0

Next ==
    \/ New
    \/ \E field \in ApiFields, value \in ApiValues : SetValueFor(field, value)
    \/ \E text \in ApiVersions : SetVersion(text)
    \/ \E version \in {"V1", "V2"} : SetModinfoVersion(version)
    \/ \E wrap \in BOOLEAN : BumpVersionMajor(wrap)
    \/ \E wrap \in BOOLEAN : BumpVersionMinor(wrap)
    \/ \E wrap \in BOOLEAN : BumpVersionPatch(wrap)
    \/ ToStr
    \/ \E sh \in ApiShapes : FromStr(Document(sh))

Spec == Init /\ [][Next]_vars


---------------------------------------------------------------------------
(* SpecRender: to_string of a Modinfo, then from_str of the text it        *)
(* returned.  The Modinfo values are ones the setters and the version      *)
(* tools build from Modinfo::new.                                          *)

RenderVersions ==
    {NewVersion("0", "1", "0"),
     [major |-> "1", minor |-> "2", patch |-> "3", pre |-> "foo", build |-> "bar"],
     [major |-> "1", minor |-> "2", patch |-> "3", pre |-> "final", build |-> ""]}

RenderModels ==
    {[author |-> a, description |-> d, display_name |-> dn, name |-> n,
      version |-> [value |-> v, compat |-> c], website |-> w,
      meta |-> [version |-> fv, path |-> ""]] :
        a \in {None, Some("Name"), Some("Jo \"Q\"")},
        d \in {None, Some("Mod to show")},
        dn \in {None, Some("Official Mod Name")},
        n \in {None, Some("SomeInternalName")},
        v \in RenderVersions,
        c \in {None, Some("A99")},
        w \in {None, Some("HP")},
        fv \in {"V1", "V2"}}

InitRender ==
    /\ modinfo \in RenderModels
    /\ doc = RawDocument("")
    /\ xml = ""
    /\ emitted = <<>>
    /\ call = [op |-> "new", arg1 |-> "", arg2 |-> "", aux |-> "", before |-> DefaultModinfo]
    /\ outcome = "ok"
    /\ ret = None
    /\ disk = {}
    /\ steps = 0

NextRender ==
    \/ steps = 0 /\ ToStr
    \/ steps = 1 /\ FromStr(RawDocument(xml))

SpecRender == InitRender /\ [][NextRender]_vars

---------------------------------------------------------------------------
(* SpecParse: from_str or parse of a document, then to_string of the       *)
(* Modinfo it returned.                                                    *)

ParseShapes ==
    {[decl |-> lay[1], root |-> lay[2], wrapper |-> wr, displayFirst |-> df,
      name |-> n, display_name |-> dn, version |-> v, compat |-> c,
      description |-> d, author |-> a, website |-> IF lay[2] = "xml" THEN Some("HP") ELSE None,
      extraName |-> en,
      unknown |-> "", keyed |-> "", key |-> "value", extraVersion |-> None, close |-> ""] :
        lay \in {<<FALSE, "ModInfo">>, <<TRUE, "xml">>, <<FALSE, "xml">>},
        wr \in {"", "Group"},
        df \in BOOLEAN,
        n \in {None, Some("SomeInternalName"), Some("")},
        dn \in {None, Some("Official Mod Name")},
        v \in {None, Some("1.2.3"), Some("1.2"), Some("")},
        c \in {None, Some("A99")},
        d \in {None, Some("Mod to show"), Some("")},
        a \in {None, Some("Name"), Some("")},
        en \in {None, Some("other_name")}}

NextParse ==
    \/ steps = 0 /\ \E sh \in ParseShapes : FromStr(Document(sh))
    \/ steps = 0 /\ \E sh \in ParseShapes : Parse("ModInfo.xml", "present", Document(sh))
    \/ steps = 0 /\ \E file \in {"absent", "denied"} : Parse("ModInfo.xml", file, RawDocument(""))
    \/ steps = 1 /\ ToStr

SpecParse == Init /\ [][NextParse]_vars

---------------------------------------------------------------------------
(* SpecAccess: set_value_for and get_value_for under the spellings of the  *)
(* field names.                                                            *)

FieldNames == {"author", "description", "display_name", "name", "website", "compat"}

Spellings ==
    {"name", "Name", "NAME", "nAmE", "author", "Author", "AUTHOR", "aUTHOR",
     "description", "Description", "DESCRIPTION", "display_name", "Display_Name",
     "DISPLAY_NAME", "website", "WebSite", "WEBSITE", "compat", "Compat", "COMPAT",
     "version", "Version", "VERSION", "foo", "displayname", ""}

FilledModinfo ==
    [DefaultModinfo EXCEPT !.author = Some("Name"), !.description = Some("Mod to show"),
                           !.display_name = Some("Official Mod Name"),
                           !.name = Some("SomeInternalName"), !.website = Some("HP"),
                           !.version.compat = Some("A99")]

InitAccess ==
    /\ modinfo \in {DefaultModinfo, FilledModinfo}
    /\ doc = RawDocument("")
    /\ xml = ""
    /\ emitted = <<>>
    /\ call = [op |-> "new", arg1 |-> "", arg2 |-> "", aux |-> "", before |-> DefaultModinfo]
    /\ outcome = "ok"
    /\ ret = None
    /\ disk = {}
    /\ steps = 0

NextAccess ==
    \/ steps = 0 /\ \E field \in Spellings, value \in ApiValues : SetValueFor(field, value)
    \/ steps <= 1 /\ \E field \in Spellings : GetValueFor(field)

SpecAccess == InitAccess /\ [][NextAccess]_vars

---------------------------------------------------------------------------
(* SpecFrame: FrameSteps operations on one Modinfo, under every mutator,   *)
(* to_string, write and from_str.                                          *)

FrameSteps == 2

FrameValues == {"1.2.3"}

FrameVersions == {"1.2.3-foo+bar", "garbage"}

FramePres == {"foo", "rc.1", "", "not valid", "01"}

FrameBuilds == {"bar", "001", "b@d"}

FrameShapes ==
    {[NoShape EXCEPT !.root = "ModInfo", !.name = Some("SomeInternalName"),
                     !.version = Some("1.2.3"), !.compat = Some("A99"),
                     !.extraVersion = ev,
                     !.description = Some("Mod to show"), !.author = Some("Name")] :
        ev \in {None, Some("2.3.4")}}

\* one more operation while fewer than FrameSteps were made
FrameOpen == steps < FrameSteps

NextFrame ==
    \/ FrameOpen /\ New
    \/ FrameOpen /\ \E field \in ApiFields, value \in FrameValues : SetValueFor(field, value)
    \/ FrameOpen /\ \E text \in FrameVersions : SetVersion(text)
    \/ FrameOpen /\ \E version \in {"V1", "V2"} : SetModinfoVersion(version)
    \/ FrameOpen /\ \E wrap \in BOOLEAN : BumpVersionMajor(wrap)
    \/ FrameOpen /\ \E wrap \in BOOLEAN : BumpVersionMinor(wrap)
    \/ FrameOpen /\ \E wrap \in BOOLEAN : BumpVersionPatch(wrap)
    \/ FrameOpen /\ \E pre \in FramePres : AddVersionPre(pre)
    \/ FrameOpen /\ \E build \in FrameBuilds : AddVersionBuild(build)
    \/ FrameOpen /\ SetFilePath("modinfo.xml")
    \/ FrameOpen /\ \E file \in {None, Some("out.xml")}, refused \in BOOLEAN : Write(file, refused)
    \/ FrameOpen /\ ToStr
    \/ FrameOpen /\ \E sh \in FrameShapes : FromStr(Document(sh))

SpecFrame == InitAccess /\ [][NextFrame]_vars

---------------------------------------------------------------------------
(* SpecElements: from_str or parse of the fixture documents with an        *)
(* element of another name added, the value attribute of one element       *)
(* written under another key, or the root closed under another name.       *)

ElementNames == {"Name", "DisplayName", "Version", "Description", "Author", "Website"}

LegacyShape ==
    [NoShape EXCEPT !.root = "ModInfo", !.name = Some("SomeInternalName"),
                    !.version = Some("1.2.3"), !.compat = Some("A99"),
                    !.description = Some("Mod to show"), !.author = Some("Name")]

CurrentShape ==
    [NoShape EXCEPT !.decl = TRUE, !.root = "xml", !.name = Some("SomeInternalName"),
                    !.display_name = Some("Official Mod Name"),
                    !.version = Some("2.3.4"), !.compat = Some("A99"),
                    !.description = Some("Mod to show"), !.author = Some("Name"),
                    !.website = Some("HP")]

UnknownElements ==
    {"", "Foo value=\"x\"", "Foo bar=\"1\"", "Foo", "name value=\"lower\""}

KeyedElements ==
    {<<"", "value">>} \cup (ElementNames \X {"VALUE", "Value", "val"})

ElementShapes ==
    {[base EXCEPT !.unknown = u, !.keyed = k[1], !.key = k[2], !.close = c] :
        base \in {LegacyShape, CurrentShape},
        u \in UnknownElements,
        k \in KeyedElements,
        c \in {"", "Other"}}

NextElements ==
    \/ steps = 0 /\ \E sh \in ElementShapes : FromStr(Document(sh))
    \/ steps = 0 /\ \E sh \in ElementShapes : Parse("ModInfo.xml", "present", Document(sh))
    \/ steps = 1 /\ ToStr

SpecElements == Init /\ [][NextElements]_vars

---------------------------------------------------------------------------
(* The claims.  Each is stated over the last operation (call), how it      *)
(* ended (outcome) and the state it left.                                  *)

AbsentOrEmpty(o) == is_none(o) \/ o = Some("")

\* the value of the first and of the last Name element of a document
FirstName(sh) == IF is_some(sh.name) THEN sh.name ELSE sh.extraName
LastName(sh) == IF is_some(sh.extraName) THEN sh.extraName ELSE sh.name

SameFields(a, b) ==
    /\ a.name = b.name
    /\ a.display_name = b.display_name
    /\ a.version = b.version
    /\ a.description = b.description
    /\ a.author = b.author
    /\ a.website = b.website

\* C1 (as the spec states it): for every Field Model M, from_str of
\* M.to_string() succeeds and yields name, display_name, version, compat,
\* description, author and website equal to those of M.
C1_RenderParseRoundTrip ==
    (call.op = "from_str" /\ doc.text = to_string(call.before))
        => outcome = "ok" /\ SameFields(modinfo, call.before)

\* C1, the case that departs: a Current model with an absent author renders
\* Author value="" and reads back with author present and empty.
C1_AbsentReadsBackEmpty ==
    /\ call.op = "from_str"
    /\ doc.text = to_string(call.before)
    /\ call.before.meta.version = "V2"
    /\ is_none(call.before.author)
    /\ outcome = "ok"
    /\ modinfo.author = Some("")

WellFormedLegacy(sh) ==
    /\ ~sh.decl /\ sh.root = "ModInfo" /\ sh.wrapper = ""
    /\ is_some(sh.name) /\ is_some(sh.version) /\ is_some(sh.description) /\ is_some(sh.author)
    /\ is_none(sh.display_name) /\ is_none(sh.website) /\ is_none(sh.extraName)

WellFormedCurrent(sh) ==
    /\ sh.decl /\ sh.root = "xml" /\ sh.wrapper = ""
    /\ is_some(sh.name) /\ is_some(sh.display_name) /\ ~sh.displayFirst
    /\ is_some(sh.version) /\ is_some(sh.description) /\ is_some(sh.author)
    /\ is_some(sh.website) /\ is_none(sh.extraName)

\* the text is the one Version::to_string gives the version it stands for
CanonicalVersion(text) ==
    parse_into(text).ok /\ VersionToString(parse_into(text).v) = text

\* C2 (as the spec states it): for every well-formed Legacy or Current
\* document D, from_str(D).to_string() equals D once all whitespace is
\* stripped from both.
C2_ParseRenderRoundTrip ==
    (call.op = "to_string" /\ (WellFormedLegacy(doc.shape) \/ WellFormedCurrent(doc.shape)))
        => strip_ws(xml) = strip_ws(doc.text)

\* C2 (amended): for every well-formed Legacy or Current document D whose
\* Version value is canonical version text (what Version::to_string writes),
\* from_str(D).to_string() equals D once all whitespace is stripped from both.
C2_CanonicalRoundTrip ==
    (/\ call.op = "to_string"
     /\ WellFormedLegacy(doc.shape) \/ WellFormedCurrent(doc.shape)
     /\ CanonicalVersion(unwrap(doc.shape.version)))
        => strip_ws(xml) = strip_ws(doc.text)

\* C2, reached: a Current document with a compat attribute was parsed and
\* rendered, and the two texts agree up to whitespace.
C2_CurrentWithCompatRoundTrips ==
    /\ call.op = "to_string"
    /\ WellFormedCurrent(doc.shape)
    /\ doc.shape.version = Some("1.2.3")
    /\ doc.shape.compat = Some("A99")
    /\ strip_ws(xml) = strip_ws(doc.text)

\* from_str, or parse, returned a Modinfo read from a document
Parsed == call.op \in {"from_str", "parse"} /\ outcome = "ok"

\* C3 (as the spec states it): after from_str, format_version is decided by
\* the first start tag (the root): V2 if it is named xml, V1 for any other
\* name, and no later event changes it.
C3_FirstStartTagDecides ==
    Parsed => modinfo.meta.version = IF doc.shape.root = "xml" THEN "V2" ELSE "V1"

\* C3, the case that departs: under the root xml a second start tag (Group)
\* follows, and the document is classified V1.
C3_LaterStartTagReclassifies ==
    /\ Parsed
    /\ doc.shape.root = "xml"
    /\ doc.shape.wrapper = "Group"
    /\ modinfo.meta.version = "V1"

\* C4 (as the spec states it): after from_str, display_name is the value of
\* the DisplayName element when there is one, before or after Name; with no
\* DisplayName and a Name element it is the title-cased name.
C4_DisplayNameResolution ==
    Parsed =>
        /\ is_some(doc.shape.display_name) => modinfo.display_name = doc.shape.display_name
        /\ (is_none(doc.shape.display_name) /\ is_some(LastName(doc.shape)))
              => modinfo.display_name = Some(to_case_Title(unwrap(modinfo.name)))

\* C4 (amended): after from_str, display_name is the value of the
\* DisplayName element when there is one, before or after Name; with no
\* DisplayName it is the title-cased value of the first Name element (which
\* is the name unless a later Name element replaced it).
C4_DisplayNameFromFirstName ==
    Parsed =>
        /\ is_some(doc.shape.display_name) => modinfo.display_name = doc.shape.display_name
        /\ (is_none(doc.shape.display_name) /\ is_some(FirstName(doc.shape)))
              => modinfo.display_name = Some(to_case_Title(unwrap(FirstName(doc.shape))))

\* C4, reached: SomeInternalName without a DisplayName gives Some Internal
\* Name, and in another document a DisplayName before Name is kept.
C4_TitleCasedName ==
    /\ Parsed
    /\ is_none(doc.shape.display_name)
    /\ doc.shape.name = Some("SomeInternalName")
    /\ is_none(doc.shape.extraName)
    /\ modinfo.display_name = Some("Some Internal Name")

\* the version parser rejects the text
Rejected(text) == ~parse_into(text).ok

\* 0.0.0 with build metadata
Sentinel(v) ==
    v.major = "0" /\ v.minor = "0" /\ v.patch = "0" /\ v.pre = "" /\ v.build # ""

\* C5 (as the spec states it): for every version text the tolerant parser
\* rejects, a Version element, set_version and set_value_for("version", ..)
\* complete without an abort and leave the version 0.0.0 with build metadata.
C5_VersionFallback ==
    /\ (call.op = "set_version" /\ Rejected(call.arg1))
          => outcome = "ok" /\ Sentinel(modinfo.version.value)
    /\ (call.op = "set_value_for" /\ ToLowercase(call.arg1) = "version" /\ Rejected(call.arg2))
          => outcome = "ok" /\ Sentinel(modinfo.version.value)
    /\ (call.op = "from_str" /\ is_some(doc.shape.version) /\ Rejected(unwrap(doc.shape.version)))
          => outcome = "ok" /\ Sentinel(modinfo.version.value)

\* C5, the case that departs: set_version("garbage") ends in the panic of
\* the fallback's unwrap().
C5_FallbackPanics ==
    call.op = "set_version" /\ call.arg1 = "garbage" /\ outcome = "panic"

\* C6 (as the spec states it): from any version M.m.p, bump_major yields
\* (M+1).0.0, bump_minor M.(m+1).0 and bump_patch M.m.(p+1), each with
\* prerelease and build cleared.
C6_BumpSemantics ==
    /\ call.op = "bump_version_major"
          => /\ outcome = "ok"
             /\ modinfo.version.value =
                  NewVersion(Succ(call.before.version.value.major), "0", "0")
    /\ call.op = "bump_version_minor"
          => /\ outcome = "ok"
             /\ modinfo.version.value =
                  NewVersion(call.before.version.value.major,
                             Succ(call.before.version.value.minor), "0")
    /\ call.op = "bump_version_patch"
          => /\ outcome = "ok"
             /\ modinfo.version.value =
                  NewVersion(call.before.version.value.major,
                             call.before.version.value.minor,
                             Succ(call.before.version.value.patch))

\* C6, the case that departs: bump_version_major on a major of u64::MAX
\* panics in a build with overflow checks.
C6_BumpAtMaxPanics ==
    /\ call.op = "bump_version_major"
    /\ call.before.version.value.major = U64Max
    /\ outcome = "panic"

\* parse(path) read the document and did not abort
ParsedFile == call.op = "parse" /\ call.aux = "present" /\ outcome # "panic"

\* C7 (as the spec states it): parse(path) fails with NoModinfoAuthor,
\* NoModinfoDescription or NoModinfoName when the field is absent or empty
\* (the first such field, in that order, names the error) and returns a
\* Modinfo only when all three are present and non-empty.
C7_RequiredFields ==
    ParsedFile =>
        /\ AbsentOrEmpty(doc.shape.author) => outcome = "NoModinfoAuthor"
        /\ (~AbsentOrEmpty(doc.shape.author) /\ AbsentOrEmpty(doc.shape.description))
              => outcome = "NoModinfoDescription"
        /\ (/\ ~AbsentOrEmpty(doc.shape.author)
            /\ ~AbsentOrEmpty(doc.shape.description)
            /\ AbsentOrEmpty(LastName(doc.shape)))
              => outcome = "NoModinfoName"
        /\ outcome = "ok"
              => /\ ~AbsentOrEmpty(doc.shape.author)
                 /\ ~AbsentOrEmpty(doc.shape.description)
                 /\ ~AbsentOrEmpty(LastName(doc.shape))

\* C7, the case that departs: a document whose Author value is empty is
\* accepted.
C7_EmptyAuthorAccepted ==
    /\ call.op = "parse"
    /\ doc.shape.author = Some("")
    /\ outcome = "ok"
    /\ modinfo.author = Some("")

\* C8 (as the spec states it): parse(path) fails with NoModinfoVersion when
\* the document has no Version element or its Version value is empty (the
\* other required fields being there).
C8_VersionRequired ==
    (/\ call.op = "parse" /\ call.aux = "present"
     /\ AbsentOrEmpty(doc.shape.version)
     /\ ~AbsentOrEmpty(doc.shape.author)
     /\ ~AbsentOrEmpty(doc.shape.description)
     /\ ~AbsentOrEmpty(LastName(doc.shape)))
        => outcome = "NoModinfoVersion"

\* C8, the case that departs: a document with no Version element is
\* accepted, with the default version 0.1.0.
C8_NoVersionAccepted ==
    /\ call.op = "parse"
    /\ is_none(doc.shape.version)
    /\ outcome = "ok"
    /\ modinfo.version.value = NewVersion("0", "1", "0")

\* kind and name of every event to_string wrote, in order
EmittedNames == [i \in 1..Len(emitted) |-> <<emitted[i].kind, emitted[i].name>>]

LegacyElements ==
    <<<<"Start", "ModInfo">>, <<"Empty", "Name">>, <<"Empty", "Version">>,
      <<"Empty", "Description">>, <<"Empty", "Author">>, <<"End", "ModInfo">>>>

CurrentElements ==
    <<<<"Decl", "xml">>, <<"Start", "xml">>, <<"Empty", "Name">>, <<"Empty", "DisplayName">>,
      <<"Empty", "Version">>, <<"Empty", "Description">>, <<"Empty", "Author">>,
      <<"Empty", "Website">>, <<"End", "xml">>>>

\* C9: for a Legacy model to_string writes exactly Name, Version, Description,
\* Author, in that order, under the root ModInfo with no declaration, and no
\* DisplayName or Website whatever the model holds; for a Current model it
\* writes the declaration, the root xml and Name, DisplayName, Version,
\* Description, Author, Website in that order.
C9_LayoutElements ==
    call.op = "to_string"
        => EmittedNames = IF modinfo.meta.version = "V1" THEN LegacyElements
                          ELSE CurrentElements

\* C9, reached: a Legacy model with display_name and website populated was
\* rendered without them.
C9_LegacyOmitsPopulated ==
    /\ call.op = "to_string"
    /\ modinfo.meta.version = "V1"
    /\ is_some(modinfo.display_name)
    /\ is_some(modinfo.website)
    /\ EmittedNames = LegacyElements

\* C10: for every spelling of author, description, display_name, name,
\* website and compat, get_value_for returns what it returns for the
\* lower-case spelling; after set_value_for(field, v), in any spelling,
\* get_value_for(field) returns v, in any spelling; get_value_for("version")
\* and any unknown field name return none.
C10_CaseInsensitiveAccess ==
    /\ (call.op = "get_value_for" /\ ToLowercase(call.arg1) \in FieldNames)
          => ret = get_value_for(modinfo, ToLowercase(call.arg1))
    /\ (call.op = "get_value_for" /\ ToLowercase(call.arg1) \notin FieldNames)
          => ret = None
    /\ (call.op = "set_value_for" /\ ToLowercase(call.arg1) \in FieldNames)
          => \A sp \in Spellings :
                ToLowercase(sp) = ToLowercase(call.arg1)
                    => get_value_for(modinfo, sp) = Some(call.arg2)

\* C10, reached: after a set_value_for that named the field in one spelling,
\* get_value_for("nAmE") returned the value set.
C10_MixedCaseGet ==
    /\ call.op = "get_value_for"
    /\ call.arg1 = "nAmE"
    /\ call.before.name = Some("Joe")
    /\ ret = Some("Joe")
    /\ steps = 2

\* C11 (as the spec states it): add_version_pre and add_version_build with
\* text outside the prerelease, respectively build, grammar return an
\* InvalidVersion error and leave the version unchanged; with valid text they
\* replace only the prerelease, respectively the build, component.
C11_InvalidTextIsError ==
    /\ (call.op = "add_version_pre" /\ ~Prerelease_new(call.arg1))
          => outcome = "InvalidVersion" /\ modinfo = call.before
    /\ (call.op = "add_version_build" /\ ~BuildMetadata_new(call.arg1))
          => outcome = "InvalidVersion" /\ modinfo = call.before
    /\ (call.op = "add_version_pre" /\ Prerelease_new(call.arg1))
          => /\ outcome = "ok"
             /\ modinfo.version.value = [call.before.version.value EXCEPT !.pre = call.arg1]
    /\ (call.op = "add_version_build" /\ BuildMetadata_new(call.arg1))
          => /\ outcome = "ok"
             /\ modinfo.version.value = [call.before.version.value EXCEPT !.build = call.arg1]

\* C11, the case that departs: add_version_pre("not valid") ends in the
\* panic of Prerelease::new(..).unwrap().
C11_InvalidPrePanics ==
    call.op = "add_version_pre" /\ call.arg1 = "not valid" /\ outcome = "panic"

\* the element's name is outside the fixed vocabulary
Unrecognized(tagText) == tagText # "" /\ TagName(tagText) \notin ElementNames

\* the document of the shape with its unrecognized element removed
WithoutUnknown(sh) == DocText([sh EXCEPT !.unknown = ""])

\* C12 (as the spec states it): for every document that from_str reads
\* without the element, a self-closing element of a name outside Name,
\* DisplayName, Version, Description, Author, Website (case-sensitive),
\* whatever its attributes, does not make from_str fail and leaves the
\* Modinfo returned the same.
C12_UnrecognizedIgnored ==
    (/\ call.op = "from_str"
     /\ Unrecognized(doc.shape.unknown)
     /\ from_str(WithoutUnknown(doc.shape)).status = "ok")
        => outcome = "ok" /\ modinfo = from_str(WithoutUnknown(doc.shape)).m

\* C12, the case that departs: an otherwise well-formed document with
\* <Foo bar="1" />, an unrecognized element without a value attribute, makes
\* from_str panic.
C12_UnknownWithoutValuePanics ==
    /\ call.op = "from_str"
    /\ doc.shape.unknown = "Foo bar=\"1\""
    /\ doc.shape.keyed = ""
    /\ doc.shape.close = ""
    /\ outcome = "panic"

\* the end tag of the root names another element
MismatchedEnd(sh) == sh.close # "" /\ sh.close # sh.root

\* C13 (as the spec states it): when the reader reports a structural error
\* (a mismatched end tag), from_str and parse(path) return an XmlError to
\* the caller rather than aborting or returning a Modinfo.
C13_MalformedIsXmlError ==
    (/\ call.op \in {"from_str", "parse"}
     /\ MismatchedEnd(doc.shape))
        => outcome = "XmlError"

\* C13, the case that departs: parse(path) of a fixture document closed by
\* </Other> ends in the panic! of the Err arm.
C13_MismatchedEndPanics ==
    /\ call.op = "parse"
    /\ MismatchedEnd(doc.shape)
    /\ doc.shape.unknown = ""
    /\ doc.shape.keyed = ""
    /\ outcome = "panic"

\* the value the shape gives the element of that name, none for no element
ShapeField(sh, tag) ==
    CASE tag = "Name" -> sh.name
      [] tag = "DisplayName" -> sh.display_name
      [] tag = "Version" -> sh.version
      [] tag = "Description" -> sh.description
      [] tag = "Author" -> sh.author
      [] tag = "Website" -> sh.website
      [] OTHER -> None

\* a recognized element of the document has no attribute whose key is
\* value in any spelling
LacksValue(sh) ==
    sh.keyed \in ElementNames /\ is_some(ShapeField(sh, sh.keyed))
        /\ ToLowercase(sh.key) # "value"

\* C14: if a recognized element of the document has no value attribute, the
\* key compared without regard to case, from_str fails and the caller gets
\* no Modinfo (the element is not skipped, the field not defaulted); written
\* as VALUE or Value the attribute is the value attribute and the document
\* reads as the fixture does.
C14_MissingValueFails ==
    /\ (call.op = "from_str" /\ LacksValue(doc.shape))
          => outcome # "ok" /\ modinfo = call.before
    /\ (/\ call.op = "from_str"
        /\ ~LacksValue(doc.shape)
        /\ doc.shape.unknown = ""
        /\ ~MismatchedEnd(doc.shape))
          => /\ outcome = "ok"
             /\ modinfo = from_str(DocText([doc.shape EXCEPT !.keyed = "", !.key = "value"])).m

\* C14, reached: from_str of a document whose Author element has val in
\* place of value failed.
C14_AuthorWithoutValueFails ==
    /\ call.op = "from_str"
    /\ doc.shape.keyed = "Author"
    /\ doc.shape.key = "val"
    /\ doc.shape.unknown = ""
    /\ ~MismatchedEnd(doc.shape)
    /\ outcome = "panic"

\* the operations other than set_modinfo_version that act on a Modinfo
FrameOps ==
    {"set_value_for", "set_version", "bump_version_major", "bump_version_minor",
     "bump_version_patch", "add_version_pre", "add_version_build", "set_file_path",
     "to_string", "write"}

\* C15: the format version of a Modinfo is left as it was by set_value_for,
\* set_version, the bumps, add_version_pre, add_version_build, set_file_path,
\* to_string and write, so that it changes only in set_modinfo_version; and
\* Modinfo::new() gives format version V2.
C15_FormatVersionFrame ==
    /\ call.op \in FrameOps => modinfo.meta.version = call.before.meta.version
    /\ (call.op = "new" /\ steps > 0) => modinfo.meta.version = "V2"

\* C15, reached: a Modinfo set to V1 is still V1 after set_file_path.
C15_LegacyKeptBySetFilePath ==
    /\ call.op = "set_file_path"
    /\ call.before.meta.version = "V1"
    /\ modinfo.meta.version = "V1"
    /\ modinfo.meta.path = "modinfo.xml"

\* the operations that change the version
VersionMutators ==
    {"set_version", "bump_version_major", "bump_version_minor", "bump_version_patch",
     "add_version_pre", "add_version_build"}

\* C16: set_version, the bumps, add_version_pre and add_version_build leave
\* compat, name, display_name, description, author, website, the format
\* version and the path as they were; and from_str of a document whose later
\* Version element has no compat attribute returns the later version with
\* no compat, whatever compat the earlier element had.
C16_VersionFrame ==
    /\ call.op \in VersionMutators
          => [modinfo EXCEPT !.version.value = call.before.version.value] = call.before
    /\ (call.op = "from_str" /\ outcome = "ok" /\ is_some(doc.shape.extraVersion))
          => /\ modinfo.version.compat = None
             /\ VersionToString(modinfo.version.value) = unwrap(doc.shape.extraVersion)

\* C16, reached: the document with compat on its first Version element and
\* none on its second was read with no compat, and add_version_pre then
\* changed the prerelease and nothing else.
C16_LaterVersionThenPre ==
    /\ is_some(doc.shape.compat)
    /\ is_some(doc.shape.extraVersion)
    /\ call.op = "add_version_pre"
    /\ call.arg1 = "foo"
    /\ call.before.version.compat = None
    /\ VersionToString(modinfo.version.value) = "2.3.4-foo"
    /\ modinfo.name = Some("SomeInternalName")

\* what parse answers for a document from_str read: the error of the first
\* of Author, Description, Name the document has no element for
FirstMissing(sh) ==
    IF is_none(sh.author) THEN "NoModinfoAuthor"
    ELSE IF is_none(sh.description) THEN "NoModinfoDescription"
    ELSE IF is_none(LastName(sh)) THEN "NoModinfoName"
    ELSE "ok"

\* C17: parse(path) of a path that does not exist answers FsNotFound; of a
\* document from_str read it answers one error, that of the first failing
\* check in the order Author, Description, Name, Version, whatever later
\* checks would fail too; and the caller gets a Modinfo, carrying the given
\* path, only when parse succeeds.
C17_FirstFailingCheck ==
    /\ (call.op = "parse" /\ call.aux = "absent") => outcome = "FsNotFound"
    /\ ParsedFile => outcome = FirstMissing(doc.shape)
    /\ (call.op = "parse" /\ outcome = "ok") => modinfo.meta.path = call.arg1
    /\ (call.op = "parse" /\ outcome # "ok") => modinfo = call.before

\* C17, reached: a document with neither Author, Description, Name nor
\* Version element was answered with NoModinfoAuthor and no Modinfo.
C17_AllMissingReportsAuthor ==
    /\ call.op = "parse"
    /\ call.aux = "present"
    /\ is_none(doc.shape.author)
    /\ is_none(doc.shape.description)
    /\ is_none(LastName(doc.shape))
    /\ is_none(doc.shape.version)
    /\ outcome = "NoModinfoAuthor"
    /\ modinfo.meta.path = ""

===========================================================================
